---- MODULE Spec2Model ----
(***************************************************************************)
(* Model of src/src/main.rs (timeular-webhooks-example).                   *)
(*                                                                         *)
(* main() runs a sequential startup (read environment, sign_in,            *)
(* fetch_events, subscribe_to_started_tracking,                            *)
(* subscribe_to_stopped_tracking, list_subscriptions) in which every step  *)
(* is followed by `?`, then serves three warp routes forever.  The         *)
(* provider (api.timeular.com) and the HTTP clients of the listener are    *)
(* the environment: their answers and requests are drawn from small sets.  *)
(***************************************************************************)
EXTENDS Integers, Sequences, FiniteSets, TLC

VARIABLES
    env,            \* names of the environment variables that are set
    public_url,     \* value of PUBLIC_URL (main.rs:98)
    pc,             \* position of main()
    run,            \* number of the current process run (1 = first launch)
    result,         \* how main() ended: "none", "panic", or the step whose Err it returned
    token,          \* `token` of main (main.rs:103)
    events,         \* `events` of main (main.rs:106)
    subscriptions,  \* `subscriptions` of main (main.rs:115)
    calls,          \* outbound HTTP calls issued through CLIENT, in order, with their answers
    provider,       \* the provider's webhook subscriptions
    nextId,         \* next subscription id the provider assigns
    catalog,        \* event kinds the provider lists on GET /webhooks/event
    reqs,           \* inbound HTTP requests of the listener
    nreq,           \* number of inbound requests so far
    stdout          \* lines printed by println!

vars == << env, public_url, pc, run, result, token, events, subscriptions,
           calls, provider, nextId, catalog, reqs, nreq, stdout >>

\* ------------------------------------------------------------------ bounds

MaxReq == 2
MaxInitSubs == 1
MaxRuns == 2

\* ------------------------------------------------------------------ constants

BASE_URL == "https://api.timeular.com/api/v3"

None == "None"

EnvNames == {"PUBLIC_URL", "TMLR_API_KEY", "TMLR_API_SECRET"}

PublicUrls == {"https://a"}

OtherTargets == {"https://a/x"}

KnownKinds == {"trackingStarted", "trackingStopped"}

\* ------------------------------------------------------------------ helpers

url(path) == BASE_URL \o path

auth(tok) == "Bearer " \o tok

StartedTarget(pub) == pub \o "/started-tracking"

StoppedTarget(pub) == pub \o "/stopped-tracking"

\* The EventRequest each subscribe function sends.
StartedRequest(pub) == [event |-> "trackingStarted", target_url |-> StartedTarget(pub)]

StoppedRequest(pub) == [event |-> "trackingStopped", target_url |-> StoppedTarget(pub)]

\* ------------------------------------------------------------------ provider answers

\* What CLIENT's send() can come back with: a transport error (send() is Err), or an
\* HTTP response.  bodyOk says whether the response body deserializes into the type
\* the caller asks .json::<T>() for; a non-2xx answer carries an error body, which
\* does not.
TransportError == [kind |-> "transport", status |-> 0, bodyOk |-> FALSE]

HttpResponse(status, bodyOk) == [kind |-> "http", status |-> status, bodyOk |-> bodyOk]

ErrorStatuses == {500}

JsonAnswers ==
    {TransportError} \cup {HttpResponse(200, b) : b \in BOOLEAN}
                     \cup {HttpResponse(s, FALSE) : s \in ErrorStatuses}

\* Answers to POST /webhooks/subscription: the created subscription, or an error.
CreateAnswers ==
    {TransportError, HttpResponse(200, TRUE)} \cup {HttpResponse(s, FALSE) : s \in ErrorStatuses}

Is2xx(resp) == resp.kind = "http" /\ resp.status \in 200..299

\* `.send().await?`: Err only when the transport failed; the status is not looked at.
SendOk(resp) == resp.kind = "http"

\* `.json::<T>().await?`: Err when the body does not deserialize into T.
JsonOk(resp) == resp.bodyOk

\* The record kept of one outbound call: the request, the answer, and (history) the
\* run that issued it and the subscriptions the provider held when it was issued.
Call(method, path, authorization, body, resp) ==
    [run |-> run, method |-> method, url |-> url(path), authorization |-> authorization,
     body |-> body, resp |-> resp, existing |-> provider]

NoBody == [event |-> None, target_url |-> None]

\* ------------------------------------------------------------------ stdout

\* What a handler prints of a deserialized payload ({:?} of the struct).
NoPayload == [user_id |-> None, event_type |-> None, data |-> "-"]

\* One println! of main.
Line(text) == [text |-> text, req |-> 0, payload |-> NoPayload]

\* One println! of a webhook handler, for request `r` (req is kept to tell the lines apart).
HandlerLine(text, r, payload) == [text |-> text, req |-> r, payload |-> payload]

\* ------------------------------------------------------------------ startup functions

\* sign_in returns Ok(resp.token) iff send and json both succeed.
sign_in_ok(resp) == SendOk(resp) /\ JsonOk(resp)

\* Faulty variant: fetch_events that also fails when a desired kind is not listed.
fetch_events_validated(resp) == SendOk(resp) /\ JsonOk(resp) /\ KnownKinds \subseteq catalog

\* fetch_events returns Ok(resp.events) iff send and json both succeed.
fetch_events_ok(resp) == SendOk(resp) /\ JsonOk(resp)

\* list_subscriptions returns Ok(resp.subscriptions) iff send and json both succeed.
list_subscriptions_ok(resp) == SendOk(resp) /\ JsonOk(resp)

\* subscribe_to_*: Ok(()) iff send succeeds; `resp` is never read.
subscribe_ok(resp) == SendOk(resp)

\* Faulty variant: subscribe_to_started_tracking that skips the POST when the provider holds
\* the binding's (event, target_url) pair.
subscribe_started_if_missing(resp) ==
    IF \E s \in provider :
          s.event = "trackingStarted" /\ s.target_url = StartedTarget(public_url)
    THEN << >>
    ELSE << Call("POST", "/webhooks/subscription", auth(token), StartedRequest(public_url), resp) >>

\* Faulty variant: subscribe_to_started_tracking that skips the POST when the provider holds
\* any subscription of the binding's event kind.
subscribe_started_by_kind(resp) ==
    IF \E s \in provider : s.event = "trackingStarted"
    THEN << >>
    ELSE << Call("POST", "/webhooks/subscription", auth(token), StartedRequest(public_url), resp) >>

\* The calls subscribe_to_started_tracking issues: one POST, unconditionally.
subscribe_started_sends(resp) ==
    << Call("POST", "/webhooks/subscription", auth(token), StartedRequest(public_url), resp) >>

\* The calls subscribe_to_stopped_tracking issues: one POST, unconditionally.
subscribe_stopped_sends(resp) ==
    << Call("POST", "/webhooks/subscription", auth(token), StoppedRequest(public_url), resp) >>

\* The provider's side of POST /webhooks/subscription: a 2xx answer means the
\* subscription was stored under a fresh id; any other answer leaves it unchanged.
ProviderAfterCreate(body, resp) ==
    IF Is2xx(resp)
    THEN provider \cup {[id |-> nextId, event |-> body.event, target_url |-> body.target_url]}
    ELSE provider

NextIdAfterCreate(resp) == IF Is2xx(resp) THEN nextId + 1 ELSE nextId

\* main returning Err(e) from the `?` of `step`: the process exits.
Exit(step) ==
    /\ pc' = "exited"
    /\ result' = step

\* ------------------------------------------------------------------ startup actions

\* main.rs:98-100: env::var(..).expect(..) panics when a variable is missing.
ReadEnv ==
    /\ pc = "start"
    /\ IF EnvNames \subseteq env
       THEN pc' = "sign_in" /\ result' = result
       ELSE pc' = "exited" /\ result' = "panic"
    /\ UNCHANGED << env, public_url, run, token, events, subscriptions, calls,
                    provider, nextId, catalog, reqs, nreq, stdout >>

\* main.rs:102-103
SignIn(resp) ==
    /\ pc = "sign_in"
    /\ stdout' = Append(stdout, Line("signing in.."))
    /\ calls' = Append(calls, Call("POST", "/developer/sign-in", None, NoBody, resp))
    /\ IF sign_in_ok(resp)
       THEN /\ token' = "tok"
            /\ pc' = "fetch_events"
            /\ result' = result
       ELSE /\ token' = token
            /\ Exit("sign_in")
    /\ UNCHANGED << env, public_url, run, events, subscriptions, provider, nextId,
                    catalog, reqs, nreq >>

\* main.rs:105-107
FetchEvents(resp) ==
    /\ pc = "fetch_events"
    /\ calls' = Append(calls, Call("GET", "/webhooks/event", auth(token), NoBody, resp))
    /\ IF fetch_events_ok(resp)
       THEN /\ events' = catalog
            /\ stdout' = stdout \o << Line("fetching available events..."), Line("available events") >>
            /\ pc' = "subscribe_started"
            /\ result' = result
       ELSE /\ events' = events
            /\ stdout' = Append(stdout, Line("fetching available events..."))
            /\ Exit("fetch_events")
    /\ UNCHANGED << env, public_url, run, token, subscriptions, provider, nextId,
                    catalog, reqs, nreq >>

\* main.rs:109-110
SubscribeStarted(resp) ==
    /\ pc = "subscribe_started"
    /\ stdout' = Append(stdout, Line("subscribing to started tracking..."))
    /\ calls' = calls \o subscribe_started_sends(resp)
    /\ IF subscribe_started_sends(resp) # << >>
       THEN /\ provider' = ProviderAfterCreate(StartedRequest(public_url), resp)
            /\ nextId' = NextIdAfterCreate(resp)
       ELSE UNCHANGED << provider, nextId >>
    /\ IF subscribe_ok(resp)
       THEN pc' = "subscribe_stopped" /\ result' = result
       ELSE Exit("subscribe_started")
    /\ UNCHANGED << env, public_url, run, token, events, subscriptions, catalog,
                    reqs, nreq >>

\* main.rs:111-112
SubscribeStopped(resp) ==
    /\ pc = "subscribe_stopped"
    /\ stdout' = Append(stdout, Line("subscribing to stopped tracking..."))
    /\ calls' = calls \o subscribe_stopped_sends(resp)
    /\ IF subscribe_stopped_sends(resp) # << >>
       THEN /\ provider' = ProviderAfterCreate(StoppedRequest(public_url), resp)
            /\ nextId' = NextIdAfterCreate(resp)
       ELSE UNCHANGED << provider, nextId >>
    /\ IF subscribe_ok(resp)
       THEN pc' = "list_subscriptions" /\ result' = result
       ELSE Exit("subscribe_stopped")
    /\ UNCHANGED << env, public_url, run, token, events, subscriptions, catalog,
                    reqs, nreq >>

\* main.rs:114-116
ListSubscriptions(resp) ==
    /\ pc = "list_subscriptions"
    /\ calls' = Append(calls, Call("GET", "/webhooks/subscription", auth(token), NoBody, resp))
    /\ IF list_subscriptions_ok(resp)
       THEN /\ subscriptions' = provider
            /\ stdout' = stdout \o << Line("listing subscriptions..."), Line("subscriptions") >>
            /\ pc' = "bind"
            /\ result' = result
       ELSE /\ subscriptions' = subscriptions
            /\ stdout' = Append(stdout, Line("listing subscriptions..."))
            /\ Exit("list_subscriptions")
    /\ UNCHANGED << env, public_url, run, token, events, provider, nextId,
                    catalog, reqs, nreq >>

\* main.rs:118-136: the routes are built and warp::serve(..).run(..) binds port 8000.
Serve ==
    /\ pc = "bind"
    /\ pc' = "serving"
    /\ UNCHANGED << env, public_url, run, result, token, events, subscriptions, calls,
                    provider, nextId, catalog, reqs, nreq, stdout >>

\* The process is launched again after it exited or was stopped while serving: main
\* starts over with fresh locals; the environment and the provider are as they were,
\* and connections the old process held are reset.
Restart ==
    /\ pc \in {"exited", "serving"}
    /\ run < MaxRuns
    /\ run' = run + 1
    /\ pc' = "start"
    /\ result' = "none"
    /\ token' = None
    /\ events' = {}
    /\ subscriptions' = {}
    /\ reqs' = [r \in DOMAIN reqs |->
                 IF reqs[r].state = "inflight" THEN [reqs[r] EXCEPT !.state = "reset"]
                 ELSE reqs[r]]
    /\ UNCHANGED << env, public_url, calls, provider, nextId, catalog, nreq, stdout >>

\* ------------------------------------------------------------------ inbound requests

\* A request body: whether it is well-formed JSON, which JSON paths it holds, and the
\* string under "eventType".  "data.currentTracking.id" and "data.newTimeEntry.id"
\* stand for the required fields of Tracking and of TimeEntry.
StartedPaths == {"userId", "eventType", "data", "data.currentTracking", "data.currentTracking.id"}

StoppedPaths == {"userId", "eventType", "data", "data.newTimeEntry", "data.newTimeEntry.id"}

JsonBody(has, eventType) == [wellFormed |-> TRUE, has |-> has, eventType |-> eventType]

\* A body that is no JSON document (an empty body, as a GET has, or garbage).
NoJson == [wellFormed |-> FALSE, has |-> {}, eventType |-> None]

Bodies ==
    { JsonBody(StartedPaths, "trackingStarted"),
      JsonBody(StartedPaths \ {"userId"}, "trackingStarted"),
      JsonBody(StartedPaths, "trackingStopped"),
      JsonBody(StoppedPaths, "trackingStopped"),
      JsonBody(StoppedPaths \ {"data.newTimeEntry", "data.newTimeEntry.id"}, "trackingStopped"),
      NoJson }

Paths == {"/started-tracking", "/stopped-tracking", "/health"}

TrackingPaths == {"/started-tracking", "/stopped-tracking"}

\* The requests clients send: the provider's POSTs to the two webhook routes, and
\* GETs (which carry no body) to any route.
Requests ==
    { [path |-> p, method |-> "POST", body |-> b] : p \in TrackingPaths, b \in Bodies }
    \cup { [path |-> p, method |-> "GET", body |-> NoJson] : p \in Paths }

Idle == [state |-> "idle", path |-> None, method |-> None, body |-> NoJson, status |-> 0]

\* ------------------------------------------------------------------ serde

\* A deserialization result.
DecodeErr == [ok |-> FALSE, payload |-> NoPayload]

DecodeOk(payload) == [ok |-> TRUE, payload |-> payload]

\* Faulty variant: TrackingStartedPayload with an optional user_id.
DecodeStarted_user_optional(b) ==
    IF /\ b.wellFormed
       /\ {"eventType", "data"} \subseteq b.has
       /\ {"data.currentTracking", "data.currentTracking.id"} \subseteq b.has
    THEN DecodeOk([user_id |-> IF "userId" \in b.has THEN "u1" ELSE None,
                   event_type |-> b.eventType, data |-> "Tracking"])
    ELSE DecodeErr

\* Faulty variant: TrackingStartedPayload whose event_type must be "trackingStarted".
DecodeStarted_tag_checked(b) ==
    IF /\ b.wellFormed
       /\ {"userId", "eventType", "data"} \subseteq b.has
       /\ {"data.currentTracking", "data.currentTracking.id"} \subseteq b.has
       /\ b.eventType = "trackingStarted"
    THEN DecodeOk([user_id |-> "u1", event_type |-> b.eventType, data |-> "Tracking"])
    ELSE DecodeErr

\* Deserialize for TrackingStartedPayload: user_id, event_type and data are required,
\* data requires currentTracking, a complete Tracking; event_type is any String.
DecodeStarted(b) ==
    IF /\ b.wellFormed
       /\ {"userId", "eventType", "data"} \subseteq b.has
       /\ {"data.currentTracking", "data.currentTracking.id"} \subseteq b.has
    THEN DecodeOk([user_id |-> "u1", event_type |-> b.eventType, data |-> "Tracking"])
    ELSE DecodeErr

\* Faulty variant: TrackingStoppedData with a required new_time_entry.
DecodeStopped_entry_required(b) ==
    IF /\ b.wellFormed
       /\ {"userId", "eventType", "data"} \subseteq b.has
       /\ {"data.newTimeEntry", "data.newTimeEntry.id"} \subseteq b.has
    THEN DecodeOk([user_id |-> "u1", event_type |-> b.eventType, data |-> "Some(TimeEntry)"])
    ELSE DecodeErr

\* Deserialize for TrackingStoppedPayload: user_id, event_type and data are required;
\* new_time_entry is an Option: None when the field is missing, an error when it is
\* there and is no complete TimeEntry.
DecodeStopped(b) ==
    IF /\ b.wellFormed
       /\ {"userId", "eventType", "data"} \subseteq b.has
       /\ ("data.newTimeEntry" \in b.has => "data.newTimeEntry.id" \in b.has)
    THEN DecodeOk([user_id |-> "u1", event_type |-> b.eventType,
                   data |-> IF "data.newTimeEntry" \in b.has THEN "Some(TimeEntry)" ELSE None])
    ELSE DecodeErr

\* ------------------------------------------------------------------ warp routes

\* What a route makes of a request: a reply (status 200, and the line its handler
\* printed), or a rejection with the status warp gives it.
Rejected(status) == [reply |-> FALSE, status |-> status, printed |-> << >>]

Replied(printed) == [reply |-> TRUE, status |-> 200, printed |-> printed]

\* Faulty variant: a health handler that answers by what the provider holds.
health_handler_upstream == IF provider = {} THEN Rejected(503) ELSE Replied(<< >>)

health_handler == Replied(<< >>)

started_tracking_handler(r, payload) ==
    Replied(<< HandlerLine("tracking was started with data", r, payload) >>)

stopped_tracking_handler(r, payload) ==
    Replied(<< HandlerLine("time entry was created with data", r, payload) >>)

\* path!("started-tracking").and(post()).and(body::json()).and_then(started_tracking_handler)
started_tracking_route(r, q) ==
    IF q.path # "/started-tracking" THEN Rejected(404)
    ELSE IF q.method # "POST" THEN Rejected(405)
    ELSE IF ~DecodeStarted(q.body).ok THEN Rejected(400)
    ELSE started_tracking_handler(r, DecodeStarted(q.body).payload)

\* path!("stopped-tracking").and(post()).and(body::json()).and_then(stopped_tracking_handler)
stopped_tracking_route(r, q) ==
    IF q.path # "/stopped-tracking" THEN Rejected(404)
    ELSE IF q.method # "POST" THEN Rejected(405)
    ELSE IF ~DecodeStopped(q.body).ok THEN Rejected(400)
    ELSE stopped_tracking_handler(r, DecodeStopped(q.body).payload)

\* path!("health").and_then(health_handler): any method.
health_route(q) ==
    IF q.path # "/health" THEN Rejected(404) ELSE health_handler

\* warp's choice among the rejections of `a.or(b)`: 404 is the lowest, 405 the
\* second lowest, otherwise the greater status, otherwise the first.
Preferred(a, b) ==
    IF b.status = 404 THEN a
    ELSE IF a.status = 404 THEN b
    ELSE IF b.status = 405 THEN a
    ELSE IF a.status = 405 THEN b
    ELSE IF a.status < b.status THEN b
    ELSE a

Or(a, b) == IF a.reply THEN a ELSE IF b.reply THEN b ELSE Preferred(a, b)

\* started_tracking_route.or(stopped_tracking_route).or(health_route)
Routes(r, q) ==
    Or(Or(started_tracking_route(r, q), stopped_tracking_route(r, q)), health_route(q))

\* ------------------------------------------------------------------ serving actions

\* A client sends a request to port 8000.  When the listener is bound it takes the
\* request; when no process listens the connection is refused before anything is
\* sent, and only the path the client meant to ask for is kept.
Arrive(q) ==
    /\ nreq < MaxReq
    /\ nreq' = nreq + 1
    /\ reqs' = [reqs EXCEPT ![nreq + 1] =
                   IF pc = "serving"
                   THEN [state |-> "inflight", path |-> q.path, method |-> q.method,
                         body |-> q.body, status |-> 0]
                   ELSE [Idle EXCEPT !.state = "refused", !.path = q.path]]
    /\ UNCHANGED << env, public_url, pc, run, result, token, events, subscriptions,
                    calls, provider, nextId, catalog, stdout >>

\* Faulty variant: a rejected body takes the listener down.
Handle_fatal_rejection(r) ==
    /\ pc = "serving"
    /\ reqs[r].state = "inflight"
    /\ LET out == Routes(r, reqs[r])
       IN /\ reqs' = [reqs EXCEPT ![r].state = "responded", ![r].status = out.status]
          /\ stdout' = stdout \o out.printed
          /\ pc' = IF out.status = 400 THEN "exited" ELSE pc
    /\ UNCHANGED << env, public_url, run, result, token, events, subscriptions,
                    calls, provider, nextId, catalog, nreq >>

\* The task warp spawned for request r runs the routes and answers.
Handle(r) ==
    /\ pc = "serving"
    /\ reqs[r].state = "inflight"
    /\ LET out == Routes(r, reqs[r])
       IN /\ reqs' = [reqs EXCEPT ![r].state = "responded", ![r].status = out.status]
          /\ stdout' = stdout \o out.printed
    /\ UNCHANGED << env, public_url, pc, run, result, token, events, subscriptions,
                    calls, provider, nextId, catalog, nreq >>

\* ------------------------------------------------------------------ specification

InitialSubscriptions ==
    { [event |-> "trackingStarted", target_url |-> StartedTarget(p)] : p \in PublicUrls }
    \cup { [event |-> "trackingStarted", target_url |-> t] : t \in OtherTargets }

\* Ids 1..n given to a set of n (event, target_url) pairs.
RECURSIVE WithIds(_, _)
WithIds(pairs, n) ==
    IF pairs = {} THEN {}
    ELSE LET x == CHOOSE y \in pairs : TRUE
         IN {[id |-> n, event |-> x.event, target_url |-> x.target_url]}
            \cup WithIds(pairs \ {x}, n + 1)

Init ==
    /\ env \in {EnvNames, EnvNames \ {"PUBLIC_URL"}}
    /\ public_url \in PublicUrls
    /\ pc = "start"
    /\ run = 1
    /\ result = "none"
    /\ token = None
    /\ events = {}
    /\ subscriptions = {}
    /\ calls = << >>
    /\ \E pairs \in SUBSET InitialSubscriptions :
          /\ Cardinality(pairs) <= MaxInitSubs
          /\ provider = WithIds(pairs, 1)
          /\ nextId = Cardinality(pairs) + 1
    /\ catalog \in SUBSET KnownKinds
    /\ reqs = [r \in 1..MaxReq |-> Idle]
    /\ nreq = 0
    /\ stdout = << >>

Startup ==
    \/ ReadEnv
    \/ \E resp \in JsonAnswers : SignIn(resp)
    \/ \E resp \in JsonAnswers : FetchEvents(resp)
    \/ \E resp \in CreateAnswers : SubscribeStarted(resp)
    \/ \E resp \in CreateAnswers : SubscribeStopped(resp)
    \/ \E resp \in JsonAnswers : ListSubscriptions(resp)
    \/ Serve

Traffic ==
    \/ \E q \in Requests : Arrive(q)
    \/ \E r \in 1..MaxReq : Handle(r)

Next == Startup \/ Traffic

Spec == Init /\ [][Next]_vars

\* A deployment with its environment set, against a provider that lists both event
\* kinds and holds no subscription yet.
InitDeployed == Init /\ env = EnvNames /\ catalog = KnownKinds /\ provider = {}

\* That deployment with all of the traffic.
SpecServing == InitDeployed /\ [][Next]_vars

\* A body each webhook route accepts, one both reject, and a health probe.
SampleRequests ==
    { q \in Requests :
        \/ q.method = "GET" /\ q.path = "/health"
        \/ q.method = "POST" /\ q.body = JsonBody(StartedPaths, "trackingStarted")
        \/ q.method = "POST" /\ q.body = JsonBody(StartedPaths \ {"userId"}, "trackingStarted") }

SampleTraffic ==
    \/ \E q \in SampleRequests : Arrive(q)
    \/ \E r \in 1..MaxReq : Handle(r)

NextDeployed == Startup \/ SampleTraffic

\* That deployment under the tokio runtime's scheduling: warp spawns one task per
\* connection, and a task that can run is run.
FairSpec == InitDeployed /\ [][NextDeployed]_vars /\ \A r \in 1..MaxReq : WF_vars(Handle(r))

\* The startup path over several launches of the process, without inbound traffic.
NextRerun == Startup \/ Restart

SpecRerun == Init /\ [][NextRerun]_vars

\* ------------------------------------------------------------------ reading the call log

IsCreate(c) == c.method = "POST" /\ c.url = url("/webhooks/subscription")

\* Positions of run r's create-subscription calls for binding b.
CreateCalls(r, b) == {i \in DOMAIN calls : IsCreate(calls[i]) /\ calls[i].run = r /\ calls[i].body = b}

\* Run r's call to `path`, if it made one.
CallsTo(r, method, path) ==
    {i \in DOMAIN calls : calls[i].run = r /\ calls[i].method = method /\ calls[i].url = url(path)}

\* The answer arrived and carried a body of the expected type.
Answered(c) == c.resp.kind = "http" /\ c.resp.bodyOk

\* The answer was a 2xx response.
Succeeded(c) == c.resp.kind = "http" /\ c.resp.status \in 200..299

\* Run r has left subscribe_to_started_tracking (it got there: the event listing was
\* answered).
StartedStepDone(r) ==
    /\ \E i \in CallsTo(r, "GET", "/webhooks/event") : Answered(calls[i])
    /\ (r < run \/ pc # "subscribe_started")

\* Run r has left subscribe_to_stopped_tracking (it got there: the started call's
\* send() returned a response).
StoppedStepDone(r) ==
    /\ \E i \in CreateCalls(r, StartedRequest(public_url)) : calls[i].resp.kind = "http"
    /\ (r < run \/ pc # "subscribe_stopped")

SamePair(s, b) == s.event = b.event /\ s.target_url = b.target_url

\* ------------------------------------------------------------------ C1

\* Run r was successful: it created both subscriptions and its startup completed.
RunSubscribed(r) ==
    /\ \E i \in CreateCalls(r, StartedRequest(public_url)) : Succeeded(calls[i])
    /\ \E i \in CreateCalls(r, StoppedRequest(public_url)) : Succeeded(calls[i])
    /\ \E i \in CallsTo(r, "GET", "/webhooks/subscription") : Answered(calls[i])

SubscriptionStepOver == pc \in {"list_subscriptions", "bind", "serving", "exited"}

\* main reported the failure of `step`.
Reported(step) == pc = "exited" /\ result = step

\* C3 as stated: partial failure isolation. When the create call of one binding fails
\* (transport error or a non-2xx answer), the create call of the other binding is
\* still attempted, its success stands, and the failed one is reported as failed.
C3_PartialFailureIsolation ==
    SubscriptionStepOver =>
        /\ \A i \in CreateCalls(run, StartedRequest(public_url)) :
              ~Succeeded(calls[i]) =>
                  /\ CreateCalls(run, StoppedRequest(public_url)) # {}
                  /\ Reported("subscribe_started")
        /\ \A i \in CreateCalls(run, StoppedRequest(public_url)) :
              ~Succeeded(calls[i]) =>
                  /\ CreateCalls(run, StartedRequest(public_url)) # {}
                  /\ Reported("subscribe_stopped")

\* ------------------------------------------------------------------ C4

\* The outbound calls of startup, in the order main makes them.
StartupCalls ==
    << [method |-> "POST", url |-> url("/developer/sign-in")],
       [method |-> "GET", url |-> url("/webhooks/event")],
       [method |-> "POST", url |-> url("/webhooks/subscription")],
       [method |-> "POST", url |-> url("/webhooks/subscription")],
       [method |-> "GET", url |-> url("/webhooks/subscription")] >>

\* The step behind a call did what it was for: the provider answered 2xx, with a body
\* of the expected type where the step reads one.
StepSucceeded(c) == Succeeded(c) /\ (IsCreate(c) \/ c.resp.bodyOk)

\* C4 as stated: startup ordering. The calls are made in the order sign-in, event
\* kinds, create subscriptions (then the listing), each only after the one before it
\* succeeded; the listener takes requests only after all of them completed; and when
\* a step failed the process ends without having served a request.
C4_StartupOrdering ==
    /\ Len(calls) <= Len(StartupCalls)
    /\ \A i \in DOMAIN calls :
          /\ calls[i].method = StartupCalls[i].method
          /\ calls[i].url = StartupCalls[i].url
          /\ i > 1 => StepSucceeded(calls[i - 1])
    /\ pc = "serving" =>
          /\ Len(calls) = Len(StartupCalls)
          /\ \A i \in DOMAIN calls : StepSucceeded(calls[i])
    /\ (\E i \in DOMAIN calls : ~StepSucceeded(calls[i])) =>
          /\ pc = "exited"
          /\ \A r \in DOMAIN reqs : reqs[r].state \notin {"inflight", "responded"}

\* ------------------------------------------------------------------ C5

StartupSteps == {"sign_in", "fetch_events", "subscribe_started", "subscribe_stopped",
                 "list_subscriptions"}

IsHealth(q) == q.state # "idle" /\ q.path = "/health"

\* C5 as stated: health route independence. A request to /health is answered with
\* success also in a run in which a startup step failed.
C5_HealthIndependent ==
    result \in StartupSteps =>
        \A r \in DOMAIN reqs :
            IsHealth(reqs[r]) =>
                /\ reqs[r].state # "refused"
                /\ reqs[r].state = "responded" => reqs[r].status = 200

\* C5 amended: a request to /health that the listener takes is answered 200 whatever
\* the provider answered during startup and whatever the request's method; the
\* listener takes requests only once every startup step has returned Ok, so in a run
\* in which sign-in, the event listing, a create call's send() or the subscription
\* listing failed, the process has exited and a request to /health is refused.
C5_HealthWhenServing ==
    \A r \in DOMAIN reqs :
        IsHealth(reqs[r]) =>
            /\ reqs[r].state = "responded" => reqs[r].status = 200
            /\ reqs[r].state \in {"inflight", "responded"} =>
                  /\ pc = "serving"
                  /\ result = "none"
                  /\ Len(calls) = Len(StartupCalls)
            /\ result \in StartupSteps => reqs[r].state = "refused"

\* Sign-in failed and a request to /health was refused.
C5_Witness ==
    /\ result = "sign_in"
    /\ \E r \in DOMAIN reqs : IsHealth(reqs[r]) /\ reqs[r].state = "refused"

\* ------------------------------------------------------------------ C6

HandlerLines(r) == {i \in DOMAIN stdout : stdout[i].req = r}

\* The JSON paths an envelope must hold on each webhook route.
RequiredPaths(path) ==
    IF path = "/started-tracking"
    THEN {"userId", "eventType", "data", "data.currentTracking", "data.currentTracking.id"}
    ELSE {"userId", "eventType", "data"}

Complete(q) == q.body.wellFormed /\ RequiredPaths(q.path) \subseteq q.body.has

IsWebhook(q) == q.state = "responded" /\ q.path \in TrackingPaths

\* ------------------------------------------------------------------ C7

\* C7: decode rejection. A request to /started-tracking or /stopped-tracking whose
\* body lacks a required envelope field is answered 4xx and no handler runs for it;
\* a request is answered 200 only if its body decoded.
C7_DecodeRejection ==
    \A r \in DOMAIN reqs :
        IsWebhook(reqs[r]) =>
            /\ ~Complete(reqs[r]) =>
                  /\ reqs[r].status \in 400..499
                  /\ HandlerLines(r) = {}
            /\ reqs[r].status = 200 => Complete(reqs[r])

\* A POST to /started-tracking without userId was answered 400.
C7_Witness ==
    \E r \in DOMAIN reqs :
        /\ IsWebhook(reqs[r])
        /\ reqs[r].path = "/started-tracking"
        /\ reqs[r].method = "POST"
        /\ reqs[r].body.wellFormed
        /\ reqs[r].body.has = RequiredPaths("/started-tracking") \ {"userId"}
        /\ reqs[r].status = 400

\* ------------------------------------------------------------------ C8

NoTimeEntry(q) ==
    /\ q.path = "/stopped-tracking"
    /\ q.method = "POST"
    /\ q.body.wellFormed
    /\ {"userId", "eventType", "data"} \subseteq q.body.has
    /\ "data.newTimeEntry" \notin q.body.has

\* C8: decode totality for the optional time entry. A POST to /stopped-tracking with
\* userId, eventType and data and without newTimeEntry is answered 200, and the
\* handler ran on a payload whose time entry is None.
C8_OptionalTimeEntry ==
    \A r \in DOMAIN reqs :
        (reqs[r].state = "responded" /\ NoTimeEntry(reqs[r])) =>
            /\ reqs[r].status = 200
            /\ \E i \in HandlerLines(r) :
                  /\ stdout[i].text = "time entry was created with data"
                  /\ stdout[i].payload.data = None

\* Such a request, with the stopped event's own tag, was answered.
C8_Witness ==
    \E r \in DOMAIN reqs :
        /\ reqs[r].state = "responded"
        /\ NoTimeEntry(reqs[r])
        /\ reqs[r].body.eventType = "trackingStopped"
        /\ "data.currentTracking" \notin reqs[r].body.has

\* ------------------------------------------------------------------ C9

RouteKind(path) == IF path = "/started-tracking" THEN "trackingStarted" ELSE "trackingStopped"

\* C9 as stated: route/event-kind consistency. Every envelope a handler ran on carries
\* the event-kind tag of the route it arrived on.
C9_TagMatchesRoute ==
    \A i \in DOMAIN stdout :
        stdout[i].req # 0 => stdout[i].payload.event_type = RouteKind(reqs[stdout[i].req].path)

\* C9 amended: an envelope is accepted on a route when it holds userId, an eventType
\* string and data of the route's shape; the eventType is not compared with the
\* route. Two requests to the same route that differ only in the tag get the same
\* answer, and the handler runs on the tag as it was sent.
C9_TagNotChecked ==
    /\ \A r1, r2 \in DOMAIN reqs :
          (/\ IsWebhook(reqs[r1]) /\ IsWebhook(reqs[r2])
           /\ reqs[r1].path = reqs[r2].path
           /\ reqs[r1].method = reqs[r2].method
           /\ reqs[r1].body.wellFormed = reqs[r2].body.wellFormed
           /\ reqs[r1].body.has = reqs[r2].body.has)
          => /\ reqs[r1].status = reqs[r2].status
             /\ (HandlerLines(r1) = {}) = (HandlerLines(r2) = {})
    /\ \A i \in DOMAIN stdout :
          stdout[i].req # 0 => stdout[i].payload.event_type = reqs[stdout[i].req].body.eventType

\* A payload tagged trackingStopped was posted to /started-tracking and the started
\* handler ran on it.
C9_Witness ==
    \E i \in DOMAIN stdout :
        /\ stdout[i].req # 0
        /\ stdout[i].text = "tracking was started with data"
        /\ stdout[i].payload.event_type = "trackingStopped"
        /\ reqs[stdout[i].req].path = "/started-tracking"
        /\ reqs[stdout[i].req].status = 200

\* ------------------------------------------------------------------ C10

SameRequest(q1, q2) == q1.path = q2.path /\ q1.method = q2.method /\ q1.body = q2.body

\* Requests with the same route and body got the same answer, whatever was in flight
\* or had failed around them.
OutcomeByOwnInput ==
    \A r1, r2 \in DOMAIN reqs :
        (/\ reqs[r1].state = "responded" /\ reqs[r2].state = "responded"
         /\ SameRequest(reqs[r1], reqs[r2]))
        => /\ reqs[r1].status = reqs[r2].status
           /\ (HandlerLines(r1) = {}) = (HandlerLines(r2) = {})

\* A step leaves every request it does not answer as it was, an answer is final, and
\* the listener keeps serving.
StepIsolated ==
    /\ \A r \in DOMAIN reqs :
          /\ reqs[r].state = "responded" => reqs'[r] = reqs[r]
          /\ reqs[r].state = "inflight" =>
                \/ reqs'[r] = reqs[r]
                \/ /\ reqs'[r] = [reqs[r] EXCEPT !.state = "responded", !.status = reqs'[r].status]
                   /\ \A o \in DOMAIN reqs \ {r} : reqs'[o].state = "responded" => reqs'[o] = reqs[o]
    /\ pc = "serving" => pc' = "serving"

\* C10: request isolation under concurrency. Whatever the interleaving, a request's
\* outcome depends only on its own route and body, answering one request (decode
\* failure included) changes no other request and does not stop the listener, and
\* every request the listener took is eventually answered.
C10_RequestIsolation ==
    /\ []OutcomeByOwnInput
    /\ [][StepIsolated]_vars
    /\ \A r \in 1..MaxReq : (reqs[r].state = "inflight") ~> (reqs[r].state = "responded")

\* One request was rejected for its body while another was still in flight.
C10_Witness ==
    \E r1, r2 \in DOMAIN reqs :
        /\ reqs[r1].state = "responded"
        /\ reqs[r1].status = 400
        /\ reqs[r2].state = "inflight"
        /\ r2 < r1

====
